---- MODULE Spec2Model ----
(***************************************************************************)
(* Model of the MedNeXt additions to nnU-Net:                              *)
(*   nnunetv2/run/load_pretrained_weights.py                               *)
(*       load_pretrained_weights          (strict transfer)                *)
(*       load_pretrained_weights_upkern   (resampling transfer, "UpKern")  *)
(*   nnunetv2/training/nnUNetTrainer/variants/mednext/                     *)
(*       nnUNetTrainer_MedNeXt.py         (_get_deep_supervision_scales,   *)
(*                                         build_network_architecture)     *)
(*                                                                         *)
(* A parameter key is the sequence of its dotted components, so that       *)
(* 'enc.conv.weight' is <<"enc","conv","weight">>.  A tensor is a shape    *)
(* and a value; the value is a provenance tag (which tensor of which       *)
(* mapping the numbers come from, and whether they were interpolated), so  *)
(* two tensors have equal values exactly when they hold the same numbers.  *)
(*                                                                         *)
(* One behaviour is one call: Init draws the operation and its inputs.     *)
(***************************************************************************)
EXTENDS Integers, Sequences, FiniteSets, TLC

VARIABLES
    op,               \* the operation this behaviour calls
    pc,               \* position inside the operation
    dist,             \* ambient torch.distributed state: initialized or not, and the rank
    ckpt,             \* saved_model['network_weights'] on disk: Seq of [key, tensor]
    net_keys,         \* keys of the network, in registration order
    network,          \* the live network's parameters: key -> tensor
    initial,          \* the network's parameters when the call was made
    saved_device,     \* device the checkpoint was deserialized onto
    pretrained_dict,  \* local pretrained_dict: Seq of [key, tensor] (insertion order)
    model_dict,       \* local model_dict: key -> tensor
    idx,              \* position of the loop over model_dict
    err,              \* exception that left the call, "none" while running
    warned,           \* keys named by warnings.warn
    args,             \* arguments of the trainer operations
    result            \* value returned by the trainer operations

vars == <<op, pc, dist, ckpt, net_keys, network, initial, saved_device, pretrained_dict,
          model_dict, idx, err, warned, args, result>>

-----------------------------------------------------------------------------
(* Bounds of the inputs.                                                   *)

\* channel counts (first two dimensions) range over 1..MaxChan
MaxChan == 2
\* kernels have 0..MaxSpatial spatial dimensions
MaxSpatial == 4
\* ranks of the distributed group range over 0..MaxRank
MaxRank == 1
\* num_of_mednext_ds_outputs ranges over 0..MaxDS
MaxDS == 6
\* num_input_channels and num_output_channels range over 1..MaxIO
MaxIO == 2

-----------------------------------------------------------------------------
(* Keys.                                                                   *)

\* Components of the keys of the model, and for each marker the components
\* that contain it as a substring (Python's  marker in k  on the dotted
\* string; no marker contains a dot, so it lies inside one component).
ComponentsContaining(marker) ==
    CASE marker = "bias"  -> {"bias"}
      [] marker = "norm"  -> {"norm"}
      [] marker = "dummy" -> {"dummy_tensor"}

\* marker in k
MarkerIn(marker, k) ==
    \E i \in 1..Len(k) : k[i] \in ComponentsContaining(marker)

\* '.seg_layers.' in k : a component equal to seg_layers with a dot on both
\* sides, that is neither the first nor the last component.
SkipPatternIn(k) ==
    \E i \in 1..Len(k) : k[i] = "seg_layers" /\ 1 < i /\ i < Len(k)

\* all([i not in key for i in skip_strings_in_pretrained])
NotSkipped(k) == ~SkipPatternIn(k)

\* key.startswith('module.') ; key[7:]
StartsWithModule(k) == Len(k) >= 2 /\ k[1] = "module"
StripModule(k) == IF StartsWithModule(k) THEN Tail(k) ELSE k

\* 'bias' in k or 'norm' in k or 'dummy' in k
LoadedUnchanged(k) ==
    MarkerIn("bias", k) \/ MarkerIn("norm", k) \/ MarkerIn("dummy", k)

-----------------------------------------------------------------------------
(* Dictionaries with insertion order: sequences of [key, tensor] entries   *)
(* with distinct keys.                                                     *)

DictKeys(d) == {d[i].key : i \in 1..Len(d)}
DictGet(d, k) == (CHOOSE i \in 1..Len(d) : d[i].key = k)
DictVal(d, k) == d[DictGet(d, k)].tensor

\* d[k] = t : overwrites in place, or appends
DictSet(d, k, t) ==
    IF k \in DictKeys(d)
      THEN [d EXCEPT ![DictGet(d, k)] = [key |-> k, tensor |-> t]]
      ELSE Append(d, [key |-> k, tensor |-> t])

\* new_state_dict of load_pretrained_weights_upkern: the entries of the
\* checkpoint in order, each under its key without a leading 'module.'
RECURSIVE NormalizeFrom(_, _, _)
NormalizeFrom(d, i, acc) ==
    IF i > Len(d) THEN acc
    ELSE NormalizeFrom(d, i + 1, DictSet(acc, StripModule(d[i].key), d[i].tensor))

\* (faulty variant: the keys are left as the checkpoint has them)
NormalizeKeepPrefix(d) == d
Normalize(d) == NormalizeFrom(d, 1, <<>>)

-----------------------------------------------------------------------------
(* Tensors and the torch operations the loaders call.                      *)

Tensor(s, v) == [shape |-> s, val |-> v]

\* inc, outc, *spatial_dims = t.shape  needs two dimensions or more
CanUnpack(s) == Len(s) >= 2
SpatialDims(s) == SubSeq(s, 3, Len(s))

\* torch.nn.functional.interpolate(input, size=size, mode=mode): the batch
\* and channel dimensions of the input are kept, the spatial ones become
\* size.  It raises ValueError unless size has one entry per spatial
\* dimension of the input, and NotImplementedError unless the input has the
\* rank of the mode (5 for trilinear, 4 for bilinear).
InterpolateError(t, size, mode) ==
    IF Len(size) # Len(t.shape) - 2 THEN "ValueError"
    ELSE IF mode = "trilinear" /\ Len(t.shape) # 5 THEN "NotImplementedError"
    ELSE IF mode = "bilinear" /\ Len(t.shape) # 4 THEN "NotImplementedError"
    ELSE "none"

Interpolate(t, size, mode) ==
    Tensor(<<t.shape[1], t.shape[2]>> \o size, <<"interp", t.val, size>>)

\* Module.state_dict(): a new mapping holding the parameters
StateDict(net) == net

\* Module.load_state_dict(sd), strict: every parameter whose entry of sd has
\* its shape takes the entry's values in place (the parameter's shape never
\* changes); a missing or unexpected key or a size mismatch is collected and
\* raised as RuntimeError after the copies.
LoadStateDictErrors(net, sd) ==
    \/ DOMAIN net # DOMAIN sd
    \/ \E k \in DOMAIN net \cap DOMAIN sd : net[k].shape # sd[k].shape

\* (the parameters rebound to the tensors of sd, unchecked)
LoadStateDictAssign(net, sd) ==
    [k \in DOMAIN net |-> IF k \in DOMAIN sd THEN sd[k] ELSE net[k]]
LoadStateDict(net, sd) ==
    [k \in DOMAIN net |->
        IF k \in DOMAIN sd /\ net[k].shape = sd[k].shape
          THEN Tensor(net[k].shape, sd[k].val)
          ELSE net[k]]

-----------------------------------------------------------------------------
(* The steps of load_pretrained_weights.                                   *)

\* A device: the CUDA device of a rank, or wherever torch.load puts the
\* tensors when it is given no map_location.
Unloaded == <<"unloaded", 0>>
DefaultDevice == <<"default", 0>>
CudaDevice(rank) == <<"cuda", rank>>

\* lines 21-24: torch.load(fname, map_location=torch.device('cuda', rank))
\* inside an initialized process group, torch.load(fname) outside.
StrictLoadDevice(d) ==
    IF d.initialized THEN CudaDevice(d.rank) ELSE DefaultDevice

\* line 77: torch.load(fname), whatever the process group.
UpkernLoadDevice(d) == DefaultDevice

\* The two assertions on one key (lines 42-48).
\* (faulty variant: the shapes are not compared)
KeyCompatibleNameOnly(key, md, pd) == key \in DictKeys(pd)
KeyCompatible(key, md, pd) ==
    /\ key \in DictKeys(pd)
    /\ md[key].shape = DictVal(pd, key).shape

\* lines 59-60: the entries of pretrained_dict whose key is in model_dict and
\* holds no skip string.
\* (faulty variant: the keys with a skip string are transferred too)
OverlayAllCommon(pd, md) == SelectSeq(pd, LAMBDA e : e.key \in DOMAIN md)
Overlay(pd, md) ==
    SelectSeq(pd, LAMBDA e : e.key \in DOMAIN md /\ NotSkipped(e.key))

\* line 62: model_dict.update(pretrained_dict)
Update(md, overlay) ==
    [k \in DOMAIN md \cup DictKeys(overlay) |->
        IF k \in DictKeys(overlay) THEN DictVal(overlay, k) ELSE md[k]]

StrictLoad ==
    /\ op = "strict" /\ pc = "start"
    /\ saved_device' = StrictLoadDevice(dist)
    /\ pretrained_dict' = ckpt
    /\ model_dict' = StateDict(network)
    /\ idx' = 1
    /\ pc' = "verify"
    /\ UNCHANGED <<op, dist, ckpt, net_keys, initial, network, err, warned, args, result>>

StrictVerifyKey ==
    /\ op = "strict" /\ pc = "verify" /\ idx <= Len(net_keys)
    /\ LET key == net_keys[idx] IN
         IF NotSkipped(key) /\ ~KeyCompatible(key, model_dict, pretrained_dict)
           THEN /\ err' = "AssertionError"
                /\ pc' = "failed"
                /\ idx' = idx
           ELSE /\ idx' = idx + 1
                /\ UNCHANGED <<err, pc>>
    /\ UNCHANGED <<op, dist, ckpt, net_keys, initial, network, saved_device,
                   pretrained_dict, model_dict, warned, args, result>>

StrictUpdate ==
    /\ op = "strict" /\ pc = "verify" /\ idx > Len(net_keys)
    /\ pretrained_dict' = Overlay(pretrained_dict, model_dict)
    /\ model_dict' = Update(model_dict, Overlay(pretrained_dict, model_dict))
    /\ pc' = "load_state_dict"
    /\ UNCHANGED <<op, dist, ckpt, net_keys, initial, network, saved_device, idx, err,
                   warned, args, result>>

\* line 70 and line 129: mod.load_state_dict(model_dict)
\* (faulty variant: the tensors of model_dict are bound to the parameters
\* without load_state_dict's checks)
CallLoadStateDictAssign ==
    /\ network' = LoadStateDictAssign(network, model_dict)
    /\ err' = err /\ pc' = "done"

CallLoadStateDict ==
    /\ network' = LoadStateDict(network, model_dict)
    /\ IF LoadStateDictErrors(network, model_dict)
         THEN err' = "RuntimeError" /\ pc' = "failed"
         ELSE err' = err /\ pc' = "done"

StrictLoadStateDict ==
    /\ op = "strict" /\ pc = "load_state_dict"
    /\ CallLoadStateDict
    /\ UNCHANGED <<op, dist, ckpt, net_keys, initial, saved_device, pretrained_dict,
                   model_dict, idx, warned, args, result>>

-----------------------------------------------------------------------------
(* The steps of load_pretrained_weights_upkern.                            *)

\* The body of the loop for one key k of model_dict (lines 96-127): the
\* tensor model_dict[k] holds afterwards, the exception raised, whether a
\* warning was emitted.
Outcome(t, e, w) == [tensor |-> t, err |-> e, warn |-> w]

\* lines 108-125, for a kernel whose channel counts passed the assertions
Resample(mine, theirs, size, mode) ==
    IF InterpolateError(theirs, size, mode) # "none"
      THEN Outcome(mine, InterpolateError(theirs, size, mode), FALSE)
      ELSE Outcome(Interpolate(theirs, size, mode), "none", FALSE)

\* (faulty variant: every kernel is interpolated, whatever its rank)
ResizeKernelAnyRank(mine, theirs) ==
    Resample(mine, theirs, SpatialDims(mine.shape), "any")
ResizeKernel(mine, theirs) ==
    LET spatial_dims1 == SpatialDims(mine.shape)
        spatial_dims2 == SpatialDims(theirs.shape)
    IN  IF spatial_dims1 = spatial_dims2
          THEN Outcome(theirs, "none", FALSE)
        ELSE IF Len(spatial_dims1) = 3
          THEN Resample(mine, theirs, spatial_dims1, "trilinear")
        ELSE IF Len(spatial_dims1) = 2
          THEN Resample(mine, theirs, spatial_dims1, "bilinear")
        ELSE Outcome(mine, "TypeError", FALSE)

\* lines 97-125, a key of both mappings
\* (faulty variant: the two assertions on the channel counts are missing)
CommonKeyNoChannelAssert(k, md, pd) ==
    IF LoadedUnchanged(k)
      THEN Outcome(DictVal(pd, k), "none", FALSE)
    ELSE IF ~CanUnpack(md[k].shape) \/ ~CanUnpack(DictVal(pd, k).shape)
      THEN Outcome(md[k], "ValueError", FALSE)
    ELSE ResizeKernel(md[k], DictVal(pd, k))

CommonKey(k, md, pd) ==
    IF LoadedUnchanged(k)
      THEN Outcome(DictVal(pd, k), "none", FALSE)
    ELSE IF ~CanUnpack(md[k].shape) \/ ~CanUnpack(DictVal(pd, k).shape)
      THEN Outcome(md[k], "ValueError", FALSE)
    ELSE IF md[k].shape[1] # DictVal(pd, k).shape[1]
            \/ md[k].shape[2] # DictVal(pd, k).shape[2]
      THEN Outcome(md[k], "AssertionError", FALSE)
    ELSE ResizeKernel(md[k], DictVal(pd, k))

\* lines 96-127
\* (faulty variant: a key the checkpoint lacks is an error, as it is in
\* load_pretrained_weights)
UpkernKeyAbortOnMissing(k, md, pd) ==
    IF k \in DOMAIN md /\ k \in DictKeys(pd)
      THEN CommonKey(k, md, pd)
      ELSE Outcome(md[k], "AssertionError", FALSE)

UpkernKey(k, md, pd) ==
    IF k \in DOMAIN md /\ k \in DictKeys(pd)
      THEN CommonKey(k, md, pd)
      ELSE Outcome(md[k], "none", TRUE)

UpkernLoad ==
    /\ op = "upkern" /\ pc = "start"
    /\ saved_device' = UpkernLoadDevice(dist)
    /\ pretrained_dict' = Normalize(ckpt)
    /\ model_dict' = StateDict(network)
    /\ idx' = 1
    /\ pc' = "loop"
    /\ UNCHANGED <<op, dist, ckpt, net_keys, initial, network, err, warned, args, result>>

\* (faulty variant: the loop writes each tensor into the live parameter)
UpkernLoopKeyInPlace ==
    /\ op = "upkern" /\ pc = "loop" /\ idx <= Len(net_keys)
    /\ LET k == net_keys[idx]
           o == UpkernKey(k, model_dict, pretrained_dict)
       IN  /\ model_dict' = [model_dict EXCEPT ![k] = o.tensor]
           /\ network' = [network EXCEPT ![k] = o.tensor]
           /\ warned' = IF o.warn THEN warned \cup {k} ELSE warned
           /\ IF o.err # "none"
                THEN err' = o.err /\ pc' = "failed" /\ idx' = idx
                ELSE err' = err /\ pc' = pc /\ idx' = idx + 1
    /\ UNCHANGED <<op, dist, ckpt, net_keys, initial, saved_device,
                   pretrained_dict, args, result>>

UpkernLoopKey ==
    /\ op = "upkern" /\ pc = "loop" /\ idx <= Len(net_keys)
    /\ LET k == net_keys[idx]
           o == UpkernKey(k, model_dict, pretrained_dict)
       IN  /\ model_dict' = [model_dict EXCEPT ![k] = o.tensor]
           /\ warned' = IF o.warn THEN warned \cup {k} ELSE warned
           /\ IF o.err # "none"
                THEN err' = o.err /\ pc' = "failed" /\ idx' = idx
                ELSE err' = err /\ pc' = pc /\ idx' = idx + 1
    /\ UNCHANGED <<op, dist, ckpt, net_keys, initial, network, saved_device,
                   pretrained_dict, args, result>>

UpkernLoadStateDict ==
    /\ op = "upkern" /\ pc = "loop" /\ idx > Len(net_keys)
    /\ CallLoadStateDict
    /\ UNCHANGED <<op, dist, ckpt, net_keys, initial, saved_device, pretrained_dict,
                   model_dict, idx, warned, args, result>>

-----------------------------------------------------------------------------
(* nnUNetTrainer_MedNeXt: the deep-supervision scales.                     *)

\* self.num_of_mednext_ds_outputs as set by __init__
num_of_mednext_ds_outputs == 5

\* np.vstack([[1,1,1]] + [[2,2,2] for i in range(n)])
VStack(n) == <<<<1, 1, 1>>>> \o [i \in 1..n |-> <<2, 2, 2>>]

\* np.cumprod(m, axis=0): row i is the product, column by column, of rows 1..i
RECURSIVE CumProd(_)
CumProd(m) ==
    IF Len(m) <= 1 THEN m
    ELSE LET before == CumProd(SubSeq(m, 1, Len(m) - 1))
             last == before[Len(before)]
         IN  Append(before, [c \in 1..Len(last) |-> last[c] * m[Len(m)][c]])

\* 1 / m, entry by entry: the quotient 1/x as numerator and denominator
Reciprocal(m) ==
    [i \in 1..Len(m) |-> [c \in 1..Len(m[i]) |-> [num |-> 1, den |-> m[i][c]]]]

\* s[:-1]
DropLast(s) == SubSeq(s, 1, Len(s) - 1)

NoSchedule == [none |-> TRUE, scales |-> <<>>]
Schedule(s) == [none |-> FALSE, scales |-> s]

\* (faulty variant: the last row is kept)
DeepSupervisionScalesKeepLast(enabled, n) ==
    IF enabled THEN Schedule(Reciprocal(CumProd(VStack(n)))) ELSE NoSchedule
DeepSupervisionScales(enabled, n) ==
    IF enabled
      THEN Schedule(DropLast(Reciprocal(CumProd(VStack(n)))))
      ELSE NoSchedule

GetDeepSupervisionScales ==
    /\ op = "scales" /\ pc = "start"
    /\ result' = DeepSupervisionScales(args.enable_deep_supervision, args.num_ds)
    /\ pc' = "done"
    /\ UNCHANGED <<op, dist, ckpt, net_keys, initial, network, saved_device,
                   pretrained_dict, model_dict, idx, err, warned, args>>

-----------------------------------------------------------------------------
(* The eight trainers' build_network_architecture: the keyword arguments   *)
(* each passes to MedNeXt.                                                 *)

Scalar(x) == [uniform |-> TRUE, value |-> x, stages |-> <<>>]
PerStage(s) == [uniform |-> FALSE, value |-> 0, stages |-> s]

Trainers == {[size |-> z, kernel |-> k] : z \in {"S", "B", "M", "L"}, k \in {3, 5}}

MedNeXt(in_channels, n_channels, n_classes, exp_r, kernel_size, deep_supervision, do_res, do_res_up_down, block_counts, checkpoint_style, grn) ==
    [in_channels |-> in_channels, n_channels |-> n_channels,
     n_classes |-> n_classes, exp_r |-> exp_r, kernel_size |-> kernel_size,
     deep_supervision |-> deep_supervision, do_res |-> do_res,
     do_res_up_down |-> do_res_up_down, block_counts |-> block_counts,
     checkpoint_style |-> checkpoint_style, grn |-> grn]

Build_S(kernel, cin, cout, ds) ==
    MedNeXt(cin, 32, cout, Scalar(2), kernel, ds, TRUE, TRUE,
            <<2,2,2,2,2,2,2,2,2>>, "None", FALSE)

Build_B(kernel, cin, cout, ds) ==
    MedNeXt(cin, 32, cout, PerStage(<<2,3,4,4,4,4,4,3,2>>), kernel, ds, TRUE, TRUE,
            <<2,2,2,2,2,2,2,2,2>>, "None", FALSE)

\* (faulty variant: M built with B's arguments)
Build_M_SmallBlocks(kernel, cin, cout, ds) == Build_B(kernel, cin, cout, ds)
Build_M(kernel, cin, cout, ds) ==
    MedNeXt(cin, 32, cout, PerStage(<<2,3,4,4,4,4,4,3,2>>), kernel, ds, TRUE, TRUE,
            <<3,4,8,8,8,8,8,4,3>>, "outside_block", FALSE)

Build_L(kernel, cin, cout, ds) ==
    MedNeXt(cin, 32, cout, PerStage(<<3,4,8,8,8,8,8,4,3>>), kernel, ds, TRUE, TRUE,
            <<3,4,8,8,8,8,8,4,3>>, "outside_block", FALSE)

\* trainer.build_network_architecture(..., num_input_channels,
\*                                    num_output_channels, enable_deep_supervision)
build_network_architecture(trainer, cin, cout, ds) ==
    CASE trainer.size = "S" -> Build_S(trainer.kernel, cin, cout, ds)
      [] trainer.size = "B" -> Build_B(trainer.kernel, cin, cout, ds)
      [] trainer.size = "M" -> Build_M(trainer.kernel, cin, cout, ds)
      [] trainer.size = "L" -> Build_L(trainer.kernel, cin, cout, ds)

BuildNetworkArchitecture ==
    /\ op = "build" /\ pc = "start"
    /\ result' = build_network_architecture(args.trainer, args.num_input_channels,
                     args.num_output_channels, args.enable_deep_supervision)
    /\ pc' = "done"
    /\ UNCHANGED <<op, dist, ckpt, net_keys, initial, network, saved_device,
                   pretrained_dict, model_dict, idx, err, warned, args>>

-----------------------------------------------------------------------------
(* Inputs: the networks and checkpoints a call is made with.               *)

\* kernel_size of the trainers: a checkpoint of one is loaded into the other
KernelSizes == {3, 5}

Spatial(r, size) == [i \in 1..r |-> size]

\* a vector of c entries; a kernel [cin, cout, size, ..., size]
VectorShape(c) == <<c>>
KernelShape(cin, cout, r, size) == <<cin, cout>> \o Spatial(r, size)

SourceShapes ==
    {VectorShape(c) : c \in 1..MaxChan}
    \cup {KernelShape(ci, co, r, z) :
              ci \in 1..MaxChan, co \in 1..MaxChan, r \in 0..MaxSpatial, z \in KernelSizes}

TargetShapes ==
    {VectorShape(1)} \cup {KernelShape(1, 1, r, z) : r \in 0..MaxSpatial, z \in KernelSizes}

\* the shapes used when a network has two keys
CoreTargetShapes == {VectorShape(1), KernelShape(1, 1, 3, 5)}
CoreSourceShapes ==
    {VectorShape(1), KernelShape(1, 1, 3, 3), KernelShape(1, 1, 3, 5),
     KernelShape(2, 1, 3, 3), KernelShape(1, 1, 2, 3)}

\* parameter keys, in registration order
Names ==
    << <<"enc", "conv", "weight">>,
       <<"enc", "conv", "bias">>,
       <<"out", "seg_layers", "0", "weight">>,
       <<"seg_layers", "0", "weight">>,
       <<"dummy_tensor">> >>

\* a key found in the checkpoint only
ExtraKey == <<"extra", "weight">>

\* the key sequences of the networks: one key, or two in registration order
KeySeqs ==
    {<<Names[i]>> : i \in 1..Len(Names)}
    \cup {<<Names[p[1]], Names[p[2]]>> :
              p \in {q \in (1..Len(Names)) \X (1..Len(Names)) : q[1] < q[2]}}

\* what the checkpoint holds for one key of the network: nothing, or a tensor
\* under the key itself or under 'module.' + key
Absent == [present |-> FALSE, prefixed |-> FALSE, shape |-> <<>>]
SourceChoices(shapes) ==
    {Absent} \cup {[present |-> TRUE, prefixed |-> p, shape |-> s] :
                       p \in BOOLEAN, s \in shapes}

RawKey(k, prefixed) == IF prefixed THEN <<"module">> \o k ELSE k
CkptEntry(raw, shape) == [key |-> raw, tensor |-> Tensor(shape, <<"ckpt", raw>>)]

\* the checkpoint of the choices, followed by the extra entries
CkptOf(keys, choice, extra) ==
    LET all == [i \in 1..Len(keys) |->
                   [present |-> choice[i].present,
                    entry |-> CkptEntry(RawKey(keys[i], choice[i].prefixed),
                                        choice[i].shape)]]
        kept == SelectSeq(all, LAMBDA e : e.present)
    IN  [i \in 1..Len(kept) |-> kept[i].entry] \o extra

NetworkOf(keys, tshape) ==
    [k \in {keys[i] : i \in 1..Len(keys)} |->
        Tensor(tshape[CHOOSE i \in 1..Len(keys) : keys[i] = k], <<"init", k>>)]

LoadInput(keys, tshape, c) == [keys |-> keys, network |-> NetworkOf(keys, tshape), ckpt |-> c]

\* one key, every shape
OneKeyInputs ==
    {LoadInput(keys, tshape, CkptOf(keys, choice, <<>>)) :
        keys \in {ks \in KeySeqs : Len(ks) = 1},
        tshape \in [1..1 -> TargetShapes],
        choice \in [1..1 -> SourceChoices(SourceShapes)]}

\* one key, and a key that the checkpoint alone holds
ExtraKeyInputs ==
    {LoadInput(keys, tshape, CkptOf(keys, choice, <<CkptEntry(ExtraKey, VectorShape(1))>>)) :
        keys \in {ks \in KeySeqs : Len(ks) = 1},
        tshape \in [1..1 -> CoreTargetShapes],
        choice \in [1..1 -> SourceChoices(CoreSourceShapes)]}

\* one key held twice by the checkpoint, with and without 'module.', in
\* either order
CollidingInputs ==
    {LoadInput(keys, tshape,
               IF first THEN <<CkptEntry(RawKey(keys[1], TRUE), s1),
                               CkptEntry(RawKey(keys[1], FALSE), s2)>>
                        ELSE <<CkptEntry(RawKey(keys[1], FALSE), s2),
                               CkptEntry(RawKey(keys[1], TRUE), s1)>>) :
        keys \in {ks \in KeySeqs : Len(ks) = 1},
        tshape \in [1..1 -> CoreTargetShapes],
        s1 \in CoreSourceShapes, s2 \in CoreSourceShapes, first \in BOOLEAN}

\* two keys, the core shapes
TwoKeyInputs ==
    {LoadInput(keys, tshape, CkptOf(keys, choice, <<>>)) :
        keys \in {ks \in KeySeqs : Len(ks) = 2},
        tshape \in [1..2 -> CoreTargetShapes],
        choice \in [1..2 -> SourceChoices(CoreSourceShapes)]}

LoadInputs == OneKeyInputs \cup ExtraKeyInputs \cup CollidingInputs \cup TwoKeyInputs

DistStates ==
    {[initialized |-> FALSE, rank |-> 0]}
    \cup {[initialized |-> TRUE, rank |-> r] : r \in 0..MaxRank}

NoArgs == [trainer |-> [size |-> "S", kernel |-> 3], num_input_channels |-> 1,
           num_output_channels |-> 1, enable_deep_supervision |-> FALSE, num_ds |-> 0]
NoResult == [none |-> TRUE, scales |-> <<>>]
EmptyDict == [k \in {} |-> Tensor(<<>>, <<>>)]

InitLoad ==
    /\ op \in {"strict", "upkern"}
    /\ dist \in DistStates
    /\ \E i \in LoadInputs :
         /\ net_keys = i.keys
         /\ network = i.network
         /\ initial = i.network
         /\ ckpt = i.ckpt
    /\ args = NoArgs

InitTrainer ==
    /\ op \in {"scales", "build"}
    /\ dist = [initialized |-> FALSE, rank |-> 0]
    /\ net_keys = <<>> /\ network = EmptyDict /\ initial = EmptyDict /\ ckpt = <<>>
    /\ args \in [trainer : Trainers, num_input_channels : 1..MaxIO,
                 num_output_channels : 1..MaxIO,
                 enable_deep_supervision : BOOLEAN, num_ds : 0..MaxDS]

Init ==
    /\ InitLoad \/ InitTrainer
    /\ pc = "start"
    /\ saved_device = Unloaded
    /\ pretrained_dict = <<>>
    /\ model_dict = EmptyDict
    /\ idx = 0
    /\ err = "none"
    /\ warned = {}
    /\ result = NoResult

Next ==
    \/ StrictLoad
    \/ StrictVerifyKey
    \/ StrictUpdate
    \/ StrictLoadStateDict
    \/ UpkernLoad
    \/ UpkernLoopKey
    \/ UpkernLoadStateDict
    \/ GetDeepSupervisionScales
    \/ BuildNetworkArchitecture

Spec == Init /\ [][Next]_vars

-----------------------------------------------------------------------------
(* Properties.                                                             *)

Keys == {net_keys[i] : i \in 1..Len(net_keys)}
Pos(k) == CHOOSE i \in 1..Len(net_keys) : net_keys[i] = k

\* the loop of the running call has gone past key k
Passed(k) == pc # "start" /\ Pos(k) < idx
\* an exception left the loop at key k
FailedAt(k) == pc = "failed" /\ idx <= Len(net_keys) /\ net_keys[idx] = k

\* every key of the network without the skip pattern is in the checkpoint
\* with the network's shape
StrictCompatible ==
    \A k \in Keys :
        ~SkipPatternIn(k) =>
            k \in DictKeys(ckpt) /\ DictVal(ckpt, k).shape = initial[k].shape

\* C1: strict transfer between compatible mappings succeeds; afterwards each
\* key without the skip pattern holds the checkpoint's tensor, each key with
\* the skip pattern holds its original tensor (whatever the checkpoint holds
\* for it), and the network has the keys it had.
C1_StrictSuccess ==
    (op = "strict" /\ StrictCompatible) =>
        /\ pc # "failed" /\ err = "none"
        /\ DOMAIN network = DOMAIN initial
        /\ pc = "done" =>
             \A k \in Keys :
                 IF SkipPatternIn(k) THEN network[k] = initial[k]
                                     ELSE network[k] = DictVal(ckpt, k)

C1_Witness ==
    /\ op = "strict" /\ pc = "done"
    /\ \E k \in Keys : /\ SkipPatternIn(k) /\ k \in DictKeys(ckpt)
                       /\ DictVal(ckpt, k).shape # initial[k].shape
                       /\ network[k] = initial[k]
    /\ \E k \in Keys : ~SkipPatternIn(k) /\ network[k] # initial[k]

\* C2: strict transfer with a key (without the skip pattern) missing from
\* the checkpoint, or held with another shape, fails with the assertion's
\* error and never touches the network; in any strict call the network is
\* touched only once every key has been verified.
C2_StrictFailure ==
    /\ (op = "strict" /\ ~StrictCompatible) =>
          /\ network = initial
          /\ pc \notin {"load_state_dict", "done"}
          /\ pc = "failed" => err = "AssertionError"
    /\ (op = "strict" /\ network # initial) => idx > Len(net_keys)

C2_Witness ==
    /\ op = "strict" /\ pc = "failed" /\ err = "AssertionError"
    /\ idx = 2
    /\ net_keys[1] \in DictKeys(ckpt)
    /\ net_keys[2] \in DictKeys(ckpt)
    /\ DictVal(ckpt, net_keys[2]).shape # initial[net_keys[2]].shape
    /\ network = initial

\* C3: the network's tensors keep their shapes through both transfers, and
\* when a transfer completes every tensor of the mapping it loaded has the
\* shape the network had for that key.
C3_ShapesKept ==
    op \in {"strict", "upkern"} =>
        /\ DOMAIN network = DOMAIN initial
        /\ \A k \in Keys : network[k].shape = initial[k].shape
        /\ pc = "done" =>
             /\ DOMAIN model_dict = DOMAIN initial
             /\ \A k \in Keys : model_dict[k].shape = initial[k].shape

C3_Witness ==
    /\ op = "upkern" /\ pc = "done"
    /\ \E k \in Keys : /\ network[k].val[1] = "interp"
                       /\ DictVal(pretrained_dict, k).shape # initial[k].shape
    /\ \E k \in Keys : LoadedUnchanged(k) /\ network[k].val[1] = "ckpt"

\* the size of dimension i of a shape, 0 where the shape has no such dimension
Dim(shape, i) == IF i <= Len(shape) THEN shape[i] ELSE 0
ChannelsDiffer(s1, s2) == Dim(s1, 1) # Dim(s2, 1) \/ Dim(s1, 2) # Dim(s2, 2)

\* C4: a resampling transfer in which a common key's tensors differ in the
\* first or second dimension never completes, and a kernel (a key that is
\* not loaded unchanged) with such a difference never enters the mapping.
C4_ChannelMismatchFlagged ==
    (op = "upkern" /\ pc # "start") =>
        \A k \in Keys \cap DictKeys(pretrained_dict) :
            ChannelsDiffer(initial[k].shape, DictVal(pretrained_dict, k).shape) =>
                /\ pc # "done"
                /\ ~LoadedUnchanged(k) => (model_dict[k] = initial[k] /\ ~Passed(k))

C4_Witness ==
    /\ op = "upkern" /\ pc = "failed" /\ err = "AssertionError"
    /\ \E k \in Keys \cap DictKeys(pretrained_dict) :
          /\ FailedAt(k)
          /\ SpatialDims(initial[k].shape) = SpatialDims(DictVal(pretrained_dict, k).shape)
          /\ ChannelsDiffer(initial[k].shape, DictVal(pretrained_dict, k).shape)

\* a key of both mappings that is not loaded unchanged, whose tensors agree
\* in the two channel counts and differ in the spatial dimensions
KernelToResize(k) ==
    /\ k \in DictKeys(pretrained_dict)
    /\ ~LoadedUnchanged(k)
    /\ Len(initial[k].shape) >= 2 /\ Len(DictVal(pretrained_dict, k).shape) >= 2
    /\ initial[k].shape[1] = DictVal(pretrained_dict, k).shape[1]
    /\ initial[k].shape[2] = DictVal(pretrained_dict, k).shape[2]
    /\ SpatialDims(initial[k].shape) # SpatialDims(DictVal(pretrained_dict, k).shape)

TargetRank(k) == Len(initial[k].shape) - 2
SourceRank(k) == Len(DictVal(pretrained_dict, k).shape) - 2

\* the loop went through k and left a tensor of the network's shape, made by
\* interpolating the checkpoint's, which a completed call loads
Resized(k) ==
    /\ ~FailedAt(k)
    /\ Passed(k) =>
         /\ model_dict[k].shape = initial[k].shape
         /\ model_dict[k].val = <<"interp", DictVal(pretrained_dict, k).val,
                                  SpatialDims(initial[k].shape)>>
    /\ pc = "done" => network[k] = model_dict[k]

\* the loop never goes past k, and leaves it with the exception named
Raises(k, exception) == ~Passed(k) /\ (FailedAt(k) => err = exception)

\* C5, as claimed: a kernel to resize whose target has 2 or 3 spatial
\* dimensions gets a tensor of the target's shape; with any other number
\* the call raises TypeError.
C5_ResizeAsClaimed ==
    (op = "upkern" /\ pc # "start") =>
        \A k \in Keys :
            KernelToResize(k) =>
                IF TargetRank(k) \in {2, 3} THEN Resized(k)
                                            ELSE Raises(k, "TypeError")

\* C5, amended: a kernel to resize whose target has 2 or 3 spatial
\* dimensions gets a tensor of the target's shape when the checkpoint's
\* kernel has as many spatial dimensions, and the call raises interpolate's
\* ValueError when it has not; when the target has any other number of
\* spatial dimensions the call raises TypeError.
C5_ResizeSameRank ==
    (op = "upkern" /\ pc # "start") =>
        \A k \in Keys :
            KernelToResize(k) =>
                IF TargetRank(k) \in {2, 3}
                  THEN IF SourceRank(k) = TargetRank(k)
                         THEN Resized(k)
                         ELSE Raises(k, "ValueError")
                  ELSE Raises(k, "TypeError")

C5_Witness ==
    /\ op = "upkern" /\ pc = "done"
    /\ \E k \in Keys :
          /\ KernelToResize(k)
          /\ initial[k].shape = KernelShape(1, 1, 3, 5)
          /\ DictVal(pretrained_dict, k).shape = KernelShape(1, 1, 3, 3)
          /\ network[k].shape = KernelShape(1, 1, 3, 5)
          /\ network[k].val[1] = "interp"

\* the checkpoint holds k, as it is or behind 'module.'
InCheckpoint(k) == k \in DictKeys(ckpt) \/ (<<"module">> \o k) \in DictKeys(ckpt)

\* C6: in the resampling transfer a key of the network is matched when the
\* checkpoint holds it with or without a leading 'module.'; a key that is
\* not matched keeps its tensor, is named by a warning once the loop has
\* gone past it, and raises nothing; nothing else is warned about.
C6_AbsentKeyWarned ==
    (op = "upkern" /\ pc # "start") =>
        /\ \A k \in Keys : k \in DictKeys(pretrained_dict) <=> InCheckpoint(k)
        /\ \A k \in Keys :
              ~InCheckpoint(k) =>
                  /\ model_dict[k] = initial[k]
                  /\ ~FailedAt(k)
                  /\ Passed(k) => k \in warned
                  /\ pc = "done" => network[k] = initial[k]
        /\ \A k \in warned : k \in Keys /\ ~InCheckpoint(k)

C6_Witness ==
    /\ op = "upkern" /\ pc = "done"
    /\ \E k \in Keys : ~InCheckpoint(k) /\ k \in warned /\ Pos(k) = 1
    /\ \E k \in Keys : /\ k \notin DictKeys(ckpt)
                       /\ (<<"module">> \o k) \in DictKeys(ckpt)
                       /\ network[k].val = <<"ckpt", <<"module">> \o k>>

\* the factor 2^-i as a quotient
Halved(i) == [num |-> 1, den |-> 2 ^ i]

\* C7: without deep supervision there is no schedule; with it and n outputs
\* the schedule has n entries and entry i (from 0) is three times 2^-i.
C7_Scales ==
    (op = "scales" /\ pc = "done") =>
        IF args.enable_deep_supervision
          THEN /\ ~result.none
               /\ Len(result.scales) = args.num_ds
               /\ \A i \in 1..Len(result.scales) :
                     result.scales[i] = <<Halved(i - 1), Halved(i - 1), Halved(i - 1)>>
          ELSE result = NoSchedule

C7_Witness ==
    /\ op = "scales" /\ pc = "done" /\ args.enable_deep_supervision
    /\ args.num_ds = num_of_mednext_ds_outputs
    /\ Len(result.scales) = 5
    /\ result.scales[5] = <<[num |-> 1, den |-> 16], [num |-> 1, den |-> 16],
                            [num |-> 1, den |-> 16]>>

\* the reference table of the presets, with the checkpoint strategy of M and
\* L named tag
RefExpansion(size) ==
    CASE size = "S" -> Scalar(2)
      [] size \in {"B", "M"} -> PerStage(<<2, 3, 4, 4, 4, 4, 4, 3, 2>>)
      [] size = "L" -> PerStage(<<3, 4, 8, 8, 8, 8, 8, 4, 3>>)
RefBlocks(size) ==
    IF size \in {"S", "B"} THEN <<2, 2, 2, 2, 2, 2, 2, 2, 2>>
                           ELSE <<3, 4, 8, 8, 8, 8, 8, 4, 3>>
RefCheckpoint(size, tag) == IF size \in {"S", "B"} THEN "None" ELSE tag

MatchesTable(tag) ==
    (op = "build" /\ pc = "done") =>
        /\ result.exp_r = RefExpansion(args.trainer.size)
        /\ result.block_counts = RefBlocks(args.trainer.size)
        /\ result.checkpoint_style = RefCheckpoint(args.trainer.size, tag)
        /\ result.kernel_size = args.trainer.kernel
        /\ result.n_channels = 32
        /\ result.do_res /\ result.do_res_up_down /\ ~result.grn
        /\ Len(result.block_counts) = 9
        /\ ~result.exp_r.uniform => Len(result.exp_r.stages) = 9
        /\ result.in_channels = args.num_input_channels
        /\ result.n_classes = args.num_output_channels
        /\ result.deep_supervision = args.enable_deep_supervision

\* C8, as claimed: every trainer builds its row of the reference table, the
\* checkpoint strategy of M and L being "outside-block".
C8_TableAsClaimed == MatchesTable("outside-block")

\* C8, amended: every trainer builds its row of the reference table, the
\* checkpoint strategy of M and L being the string 'outside_block'.
C8_TableUnderscore == MatchesTable("outside_block")

C8_Witness ==
    /\ op = "build" /\ pc = "done"
    /\ args.trainer = [size |-> "M", kernel |-> 3]
    /\ result.block_counts = <<3, 4, 8, 8, 8, 8, 8, 4, 3>>
    /\ result.checkpoint_style = "outside_block"
    /\ args.num_input_channels # args.num_output_channels

\* C9: inside an initialized process group both loaders deserialize the
\* checkpoint onto the CUDA device of the process's rank.
C9_RankDevice ==
    (op \in {"strict", "upkern"} /\ dist.initialized /\ saved_device # Unloaded) =>
        saved_device = CudaDevice(dist.rank)

\* an exception left the loop of load_pretrained_weights_upkern
FailedInLoop == op = "upkern" /\ pc = "failed" /\ idx <= Len(net_keys)

\* C10, as claimed: when the resampling transfer fails at a key, the
\* network's parameters of the earlier keys of both mappings hold the values
\* derived from the checkpoint, the others their original values.
C10_NetworkPartlyUpdated ==
    FailedInLoop =>
        \A k \in Keys :
            IF Pos(k) < idx /\ k \in DictKeys(pretrained_dict)
              THEN network[k].val = model_dict[k].val /\ network[k] # initial[k]
              ELSE network[k] = initial[k]

\* C10, amended: when the resampling transfer fails at a key, the local
\* model_dict holds the checkpoint's (or interpolated) tensors for the
\* earlier keys of both mappings and the original tensors for the failing
\* and later keys, and the network's parameters are all unmodified: the
\* network changes only in the load_state_dict call after the loop.
C10_OnlyLocalCopyUpdated ==
    /\ FailedInLoop =>
          /\ network = initial
          /\ \A k \in Keys :
                IF Pos(k) < idx /\ k \in DictKeys(pretrained_dict)
                  THEN model_dict[k].val[1] \in {"ckpt", "interp"}
                  ELSE model_dict[k] = initial[k]
    /\ (op = "upkern" /\ network # initial) =>
          (pc \in {"done", "failed"} /\ idx > Len(net_keys))

C10_Witness ==
    /\ FailedInLoop /\ idx = 2
    /\ net_keys[1] \in DictKeys(pretrained_dict)
    /\ model_dict[net_keys[1]].val[1] = "ckpt"
    /\ network = initial

====
